---- MODULE Spec2Model ----
(***************************************************************************)
(* The DNS record clients of libdns/hetzner: the Vercel client             *)
(* (src/client.go, package vercel) and the Hetzner client                  *)
(* (src/unnamed/part_000, package hetzner).  A behaviour is one of the two *)
(* packages (prov) talking to its provider: callers start operations, each *)
(* operation runs its HTTP calls one at a time, and the provider answers   *)
(* each call with one of the outcomes doRequest distinguishes.             *)
(*                                                                         *)
(* Strings the code takes apart (record names, zones) are sequences of     *)
(* one-character strings; strings it passes on verbatim are TLA+ strings.  *)
(* time.Duration is counted in milliseconds.                               *)
(*                                                                         *)
(* TLC orders the fields of a record by the first occurrence of their      *)
(* names in the module, and sorts a record written in another order when   *)
(* it first needs it; two workers sorting one shared value at once corrupt *)
(* it.  Every record below is therefore written in that order: zone first, *)
(* ZoneID last.                                                            *)
(***************************************************************************)
EXTENDS Integers, Sequences, FiniteSets, TLC

VARIABLES
    prov,       \* which package this behaviour runs: "vercel" or "hetzner"
    store,      \* provider: the ids of the records it holds
    used,       \* provider (Vercel): every id it has ever held
    zones,      \* provider (Hetzner): what GET /zones?name= answers
    pc,         \* client -> the call it is about to make, or how it ended
    op,         \* client -> the running operation and its arguments
    zoneData,   \* client -> local zoneData of the running Hetzner function
    calls,      \* client -> the requests the running operation handed to doRequest
    result,     \* client -> what the operation returned
    pre,        \* client -> the provider's record ids when the operation began
    assigned,   \* client -> (Vercel) how the provider chose the id of the record it created
    nm          \* the name normalizer on its own: inputs and outputs

vars == <<prov, store, used, zones, pc, op, zoneData, calls, result, pre, assigned, nm>>

------------------------------------------------------------------------------
(* Bounds and input sets *)

MaxNameLen == 4
MaxZoneLen == 2
MaxZones == 2

\* time.Second, in the model's unit (milliseconds)
Second == 1000

\* the floor of the TTL the Vercel client sends
MinTTL == 60

Chars == {"w", "z", "."}

Clients == {"c1", "c2"}

\* ids the provider assigns; "%" is an id that makes no valid URL
RealIds == {"i1", "i2"}
InputIds == {"", "%"} \cup RealIds

Names == { <<"w", ".", "z", ".">>, <<"z">>, <<"z", ".">> }
ZoneNames == { <<"z">>, <<"z", ".">>, <<"%">> }
TTLs == {-1500, 0, 10 * Second, 60 * Second + 500, 300 * Second}

\* all sequences over S of length at most n
RECURSIVE SeqsUpTo(_, _)
SeqsUpTo(S, n) ==
    IF n = 0 THEN { <<>> }
    ELSE LET shorter == SeqsUpTo(S, n - 1)
         IN  shorter \cup { Append(s, x) : s \in shorter, x \in S }

------------------------------------------------------------------------------
(* Strings *)

\* strings.HasSuffix
HasSuffix(s, suffix) ==
    /\ Len(suffix) <= Len(s)
    /\ SubSeq(s, Len(s) - Len(suffix) + 1, Len(s)) = suffix

\* strings.TrimSuffix: s without the suffix when it ends with it, else s
TrimSuffix(s, suffix) ==
    IF HasSuffix(s, suffix) THEN SubSeq(s, 1, Len(s) - Len(suffix)) ELSE s

\* unFQDN is called by normalizeRecordName and defined outside src/:
\* it strips a single trailing "."
unFQDN(fqdn) == TrimSuffix(fqdn, <<".">>)

\* a plausible slip: the zone suffix is never trimmed
normalizeRecordName_NoTrim(recordName, zone) == unFQDN(unFQDN(recordName))

\* a plausible slip: the dot the zone suffix leaves behind is not stripped
normalizeRecordName_NoFinalStrip(recordName, zone) ==
    TrimSuffix(unFQDN(recordName), unFQDN(zone))

\* normalizeRecordName, the same function in both packages
normalizeRecordName(recordName, zone) ==
    LET normalized == unFQDN(recordName)
        trimmed == TrimSuffix(normalized, unFQDN(zone))
    IN  unFQDN(trimmed)

\* http.NewRequestWithContext fails when the URL does not parse; of the
\* characters modelled, "%" (an invalid escape) is the one that breaks it
UrlSafe(s) == \A i \in 1..Len(s) : s[i] # "%"

------------------------------------------------------------------------------
(* Records *)

\* libdns.Record{}
NoRecord == [ID |-> "", Type |-> "", Name |-> <<>>, Value |-> "", TTL |-> 0]

\* zone{}
NoZone == [ID |-> "", TTL |-> 0]

\* the zones the provider may hold under a name, each with its default TTL
ZoneChoices == { [ID |-> "z1", TTL |-> 3600], [ID |-> "z2", TTL |-> 86400] }

\* Duration.Seconds() truncated by int(): whole seconds, towards zero
WholeSeconds(d) == IF d >= 0 THEN d \div Second ELSE -((-d) \div Second)

Max(a, b) == IF a >= b THEN a ELSE b

------------------------------------------------------------------------------
(* The provider, as doRequest sees it *)

\* What one HTTP call can come to.  "ok": a 2xx status and a body that decodes.
\* "undecodable": a 2xx status and a body json.Unmarshal rejects.  "status": a
\* status outside [200,300), the request refused.  "neterr": client.Do fails and
\* the request never took effect (no connection, context cancelled).  "lost":
\* the provider carried the request out, and client.Do or ioutil.ReadAll failed
\* afterwards (connection reset, context cancelled while the body is read).
Outcomes == {"ok", "undecodable", "status", "neterr", "lost"}

\* the provider carried the request out
Reached(o) == o \in {"ok", "undecodable", "lost"}

\* the err doRequest returns
doRequest_err(o) ==
    CASE o \in {"ok", "undecodable"} -> ""
      [] o = "status" -> "status"
      [] OTHER -> "transport"

\* a plausible slip: the error of json.Unmarshal is dropped
Decoded_err_Suppressed(o) == doRequest_err(o)

\* the err after doRequest and json.Unmarshal
Decoded_err(o) == IF o = "undecodable" THEN "decode" ELSE doRequest_err(o)

\* one request handed to doRequest, what it came to, and for an "ok" outcome
\* what the decoded body held (a sequence: zones, records, or the one record
\* of an answer to a POST or PUT)
Call(method, path, id, zone, body, outcome, reply) ==
    [zone |-> zone, method |-> method, path |-> path, id |-> id, body |-> body,
     outcome |-> outcome, reply |-> reply]

\* the record lists the provider can answer a listing with: its records, each
\* once, in any order; ttls is what it may put into a record's ttl field
ListBodies(ttls) ==
    LET n == Cardinality(store)
        wire(id, t) == [ID |-> id, Type |-> "TXT", Name |-> <<"w">>, Value |-> "v", TTL |-> t]
    IN  { s \in [1..n -> { wire(id, t) : id \in store, t \in ttls }] :
            { s[i].ID : i \in 1..n } = store }

------------------------------------------------------------------------------
(* Pure parts of the Vercel client (src/client.go) *)

\* a plausible slip: the TTL is sent as given, without the floor
Vercel_reqData_NoFloor(r, zone) ==
    [Type |-> r.Type, Name |-> normalizeRecordName(r.Name, zone),
     Value |-> r.Value, TTL |-> WholeSeconds(r.TTL)]

\* createRecord: the body of the POST
Vercel_reqData(r, zone) ==
    [Type |-> r.Type, Name |-> normalizeRecordName(r.Name, zone),
     Value |-> r.Value, TTL |-> WholeSeconds(Max(r.TTL, MinTTL * Second))]

\* a plausible slip: the record returned keeps the caller's id
Vercel_created_KeepsID(r, zone, uid) ==
    [ID |-> r.ID, Type |-> r.Type, Name |-> normalizeRecordName(r.Name, zone),
     Value |-> r.Value, TTL |-> 0]

\* a plausible slip: the record returned carries the TTL that was sent
Vercel_created_SentTTL(r, zone, uid) ==
    [ID |-> uid, Type |-> r.Type, Name |-> normalizeRecordName(r.Name, zone),
     Value |-> r.Value, TTL |-> Vercel_reqData(r, zone).TTL * Second]

\* createRecord: the record returned after a successful POST
Vercel_created(r, zone, uid) ==
    [ID |-> uid, Type |-> r.Type, Name |-> normalizeRecordName(r.Name, zone),
     Value |-> r.Value, TTL |-> 0]

\* a plausible slip: the id of the entry is not copied
Vercel_listed_NoID(w) ==
    [ID |-> "", Type |-> w.Type, Name |-> w.Name, Value |-> w.Value,
     TTL |-> w.TTL * Second]

\* getAllRecords: one record of the answer
Vercel_listed(w) ==
    [ID |-> w.ID, Type |-> w.Type, Name |-> w.Name, Value |-> w.Value,
     TTL |-> w.TTL * Second]

\* a plausible slip: a failed create is tried again
Vercel_createRecord_next_Retries(err) == IF err # "" THEN "post" ELSE "done"

\* createRecord: what follows doRequest and json.Unmarshal, whatever they
\* returned: the function returns
Vercel_createRecord_next(err) == "done"

\* a plausible slip: the create goes ahead whatever the delete returned
Vercel_updateRecord_next_IgnoresErr(err) == "post"

\* updateRecord: what follows deleteRecord's return
Vercel_updateRecord_next(err) == IF err # "" THEN "done" ELSE "post"

------------------------------------------------------------------------------
(* Pure parts of the Hetzner client (src/unnamed/part_000) *)

\* a plausible slip: more than one zone is accepted and the first one used
getZoneData_result_FirstOfMany(zs) ==
    IF Len(zs) = 0 THEN [zone |-> NoZone, err |-> "", panic |-> TRUE]
    ELSE [zone |-> zs[1], err |-> "", panic |-> FALSE]

\* a plausible slip (or fix): an empty zone list is returned as an error
getZoneData_result_NotFound(zs) ==
    IF Len(zs) > 1 THEN [zone |-> NoZone, err |-> "ambiguous", panic |-> FALSE]
    ELSE IF Len(zs) = 0 THEN [zone |-> NoZone, err |-> "notfound", panic |-> FALSE]
    ELSE [zone |-> zs[1], err |-> "", panic |-> FALSE]

\* getZoneData: from the decoded zone list to (zone, err), or a panic
getZoneData_result(zs) ==
    IF Len(zs) > 1 THEN [zone |-> NoZone, err |-> "ambiguous", panic |-> FALSE]
    ELSE IF Len(zs) = 0 THEN [zone |-> NoZone, err |-> "", panic |-> TRUE]
    ELSE [zone |-> zs[1], err |-> "", panic |-> FALSE]

\* a plausible slip: the name is sent as given
Hetzner_createRecord_reqData_RawName(zd, r, zone) ==
    [Type |-> r.Type, Name |-> r.Name, Value |-> r.Value,
     TTL |-> << WholeSeconds(r.TTL) >>, ZoneID |-> zd.ID]

\* createRecord: the body of the POST (TTL is a *int: a sequence of length <= 1)
Hetzner_createRecord_reqData(zd, r, zone) ==
    [Type |-> r.Type, Name |-> normalizeRecordName(r.Name, zone), Value |-> r.Value,
     TTL |-> << WholeSeconds(r.TTL) >>, ZoneID |-> zd.ID]

\* a plausible slip: a zero TTL is replaced by the zone's default
Hetzner_updateRecord_reqData_ZoneDefault(zd, r, zone) ==
    [Type |-> r.Type, Name |-> normalizeRecordName(r.Name, zone), Value |-> r.Value,
     TTL |-> << IF WholeSeconds(r.TTL) = 0 THEN zd.TTL ELSE WholeSeconds(r.TTL) >>,
     ZoneID |-> zd.ID]

\* updateRecord: the body of the PUT
Hetzner_updateRecord_reqData(zd, r, zone) ==
    [Type |-> r.Type, Name |-> normalizeRecordName(r.Name, zone), Value |-> r.Value,
     TTL |-> << WholeSeconds(r.TTL) >>, ZoneID |-> zd.ID]

\* a plausible slip: a record without a ttl is left with the zero TTL
Hetzner_getAllRecords_rec_NoDefault(w, zd) ==
    [ID |-> w.ID, Type |-> w.Type, Name |-> w.Name, Value |-> w.Value,
     TTL |-> IF w.TTL # <<>> THEN w.TTL[1] * Second ELSE 0]

\* getAllRecords: one record of the answer
Hetzner_getAllRecords_rec(w, zd) ==
    [ID |-> w.ID, Type |-> w.Type, Name |-> w.Name, Value |-> w.Value,
     TTL |-> IF w.TTL # <<>> THEN w.TTL[1] * Second ELSE zd.TTL * Second]

\* createRecord: the record returned
Hetzner_createRecord_rec(w, zd) ==
    [ID |-> w.ID, Type |-> w.Type, Name |-> w.Name, Value |-> w.Value,
     TTL |-> IF w.TTL # <<>> THEN w.TTL[1] * Second ELSE zd.TTL * Second]

\* a plausible slip: the record returned is built from the caller's record
Hetzner_updateRecord_rec_NoID(w, zd) ==
    [ID |-> "", Type |-> w.Type, Name |-> w.Name, Value |-> w.Value,
     TTL |-> IF w.TTL # <<>> THEN w.TTL[1] * Second ELSE zd.TTL * Second]

\* updateRecord: the record returned
Hetzner_updateRecord_rec(w, zd) ==
    [ID |-> w.ID, Type |-> w.Type, Name |-> w.Name, Value |-> w.Value,
     TTL |-> IF w.TTL # <<>> THEN w.TTL[1] * Second ELSE zd.TTL * Second]

\* the record the provider answers a POST or PUT with: what was sent, under
\* the record's id, with the ttl field present or left out
Hetzner_answer(id, reqData, ttl) ==
    [ID |-> id, Type |-> reqData.Type, Name |-> reqData.Name,
     Value |-> reqData.Value, TTL |-> ttl]

------------------------------------------------------------------------------
(* Entry points *)

\* a plausible slip: the test on the id is inverted
createOrUpdateRecord_path_Inverted(r) == IF Len(r.ID) # 0 THEN "create" ELSE "update"

\* createOrUpdateRecord: createRecord for an empty id, else updateRecord
\* (r.ID is a TLA+ string here; its length is zero exactly when it is "")
createOrUpdateRecord_path(r) == IF r.ID = "" THEN "create" ELSE "update"

\* a plausible slip: the zone is looked up only when no caller holds one yet
FirstCall_Cached(path) ==
    CASE path = "delete" -> "delete"
      [] prov = "hetzner" /\ \A d \in Clients : zoneData[d] = NoZone -> "zone"
      [] path = "create" -> "post"
      [] path = "update" -> (IF prov = "hetzner" THEN "put" ELSE "delete")
      [] OTHER -> "list"

\* the first call of each function: the Hetzner create, list and update begin
\* with getZoneData, the Vercel update begins with deleteRecord
FirstCall(path) ==
    CASE path = "delete" -> "delete"
      [] prov = "hetzner" -> "zone"
      [] path = "create" -> "post"
      [] path = "update" -> "delete"
      [] OTHER -> "list"

Running == {"zone", "list", "post", "delete", "put"}
Ended == {"done", "panic", "crashed"}

NoResult == [err |-> "", rec |-> NoRecord, recs |-> <<>>]

NoOp == [zone |-> <<>>, path |-> "none", rec |-> NoRecord]

Begin(c, path, zone, r) ==
    /\ pc[c] = "idle"
    /\ op' = [op EXCEPT ![c] = [zone |-> zone, path |-> path, rec |-> r]]
    /\ pc' = [pc EXCEPT ![c] = FirstCall(path)]
    /\ pre' = [pre EXCEPT ![c] = store]
    /\ UNCHANGED <<prov, store, used, zones, zoneData, calls, result, assigned, nm>>

createOrUpdateRecord(c) ==
    \E id \in InputIds, name \in Names, zone \in ZoneNames, ttl \in TTLs :
        LET r == [ID |-> id, Type |-> "TXT", Name |-> name, Value |-> "v", TTL |-> ttl]
        IN  Begin(c, createOrUpdateRecord_path(r), zone, r)

deleteRecord(c) ==
    \E id \in InputIds, zone \in ZoneNames :
        Begin(c, "delete", zone, [NoRecord EXCEPT !.ID = id])

getAllRecords(c) ==
    \E zone \in ZoneNames : Begin(c, "list", zone, NoRecord)

------------------------------------------------------------------------------
(* Steps: each is one call of the running function, from building the      *)
(* request to handling what doRequest returns                              *)

\* the function returns (rec, err), or (recs, err) for a listing
Finish(c, err, rec, recs) ==
    /\ pc' = [pc EXCEPT ![c] = "done"]
    /\ result' = [result EXCEPT ![c] = [err |-> err, rec |-> rec, recs |-> recs]]

Goto(c, next) ==
    /\ pc' = [pc EXCEPT ![c] = next]
    /\ UNCHANGED result

Panic(c) == Goto(c, "panic")

\* the request is handed to doRequest
Issue(c, call) == calls' = [calls EXCEPT ![c] = Append(@, call)]

\* the outcomes the provider can give a request: one addressed to a record it
\* does not hold, or a create it has no id left for, is refused or never arrives
Possible(accepted) == IF accepted THEN Outcomes ELSE {"status", "neterr"}

Fixed == <<prov, zones, op, pre, nm>>

\* ---- Vercel

\* deleteRecord, and in an update what updateRecord does with its return
Vercel_deleteRecord(c) ==
    /\ prov = "vercel"
    /\ pc[c] = "delete"
    /\ LET id == op[c].rec.ID
           zone == op[c].zone
           return(err) ==
               LET next == IF op[c].path = "update"
                           THEN Vercel_updateRecord_next(err) ELSE "done"
               IN  IF next = "done" THEN Finish(c, err, NoRecord, <<>>)
                   ELSE Goto(c, next)
       IN  \/ /\ ~(UrlSafe(zone) /\ id # "%")
              /\ return("request")
              /\ UNCHANGED <<store, calls>>
           \/ /\ UrlSafe(zone) /\ id # "%"
              /\ \E o \in Possible(id \in store) :
                    /\ Issue(c, Call("DELETE", "records", id, zone, <<>>, o, <<>>))
                    /\ store' = IF Reached(o) THEN store \ {id} ELSE store
                    /\ return(doRequest_err(o))
    /\ UNCHANGED <<used, zoneData, assigned>>
    /\ UNCHANGED Fixed

Vercel_createRecord(c) ==
    /\ prov = "vercel"
    /\ pc[c] = "post"
    /\ LET r == op[c].rec
           zone == op[c].zone
           reqData == Vercel_reqData(r, zone)
           return(err, rec) ==
               IF Vercel_createRecord_next(err) = "done"
               THEN Finish(c, err, rec, <<>>)
               ELSE Goto(c, Vercel_createRecord_next(err))
       IN  \/ /\ ~UrlSafe(zone)
              /\ Finish(c, "request", NoRecord, <<>>)
              /\ UNCHANGED <<store, used, calls, assigned>>
           \/ /\ UrlSafe(zone)
              /\ \E o \in Possible(RealIds \ store # {}) :
                    LET post(reply) == Call("POST", "records", "", zone, <<reqData>>, o, reply)
                    IN  \/ /\ ~Reached(o)
                          /\ Issue(c, post(<<>>))
                          /\ return(Decoded_err(o), NoRecord)
                          /\ UNCHANGED <<store, used, assigned>>
                       \/ /\ Reached(o)
                          /\ \E uid \in RealIds \ store :
                               /\ Issue(c, post(IF o = "ok" THEN << [ID |-> uid] >> ELSE <<>>))
                               /\ store' = store \cup {uid}
                               /\ used' = used \cup {uid}
                               /\ assigned' = [assigned EXCEPT ![c] =
                                      IF uid \in used THEN "reused" ELSE "fresh"]
                               /\ IF o = "ok"
                                  THEN return("", Vercel_created(r, zone, uid))
                                  ELSE return(Decoded_err(o), NoRecord)
    /\ UNCHANGED zoneData
    /\ UNCHANGED Fixed

Vercel_getAllRecords(c) ==
    /\ prov = "vercel"
    /\ pc[c] = "list"
    /\ LET zone == op[c].zone
       IN  \/ /\ ~UrlSafe(zone)
              /\ Finish(c, "request", NoRecord, <<>>)
              /\ UNCHANGED calls
           \/ /\ UrlSafe(zone)
              /\ \E o \in Outcomes :
                    LET get(reply) == Call("GET", "records", "", zone, <<>>, o, reply)
                    IN  IF o = "ok"
                        THEN \E body \in ListBodies({60, 3600}) :
                                /\ Issue(c, get(body))
                                /\ Finish(c, "", NoRecord,
                                          [i \in 1..Len(body) |-> Vercel_listed(body[i])])
                        ELSE /\ Issue(c, get(<<>>))
                             /\ Finish(c, Decoded_err(o), NoRecord, <<>>)
    /\ UNCHANGED <<store, used, zoneData, assigned>>
    /\ UNCHANGED Fixed

\* ---- Hetzner

\* a plausible slip: the zone is kept in a variable of the package, which all
\* callers write and read
getZoneData_keep_Shared(c, z) == [d \in Clients |-> z]

\* zoneData, err := getZoneData(...): the zone is kept in a local variable of
\* the calling function
getZoneData_keep(c, z) == [zoneData EXCEPT ![c] = z]

\* getZoneData, and what its caller does with its return
getZoneData(c) ==
    /\ prov = "hetzner"
    /\ pc[c] = "zone"
    /\ \E o \in Outcomes :
          /\ Issue(c, Call("GET", "zones", "", op[c].zone, <<>>, o,
                           IF o = "ok" THEN zones ELSE <<>>))
          /\ IF o # "ok"
             THEN Finish(c, Decoded_err(o), NoRecord, <<>>) /\ UNCHANGED zoneData
             ELSE LET res == getZoneData_result(zones)
                  IN  IF res.panic THEN Panic(c) /\ UNCHANGED zoneData
                      ELSE IF res.err # ""
                      THEN Finish(c, res.err, NoRecord, <<>>) /\ UNCHANGED zoneData
                      ELSE /\ zoneData' = getZoneData_keep(c, res.zone)
                           /\ Goto(c, CASE op[c].path = "create" -> "post"
                                        [] op[c].path = "update" -> "put"
                                        [] OTHER -> "list")
    /\ UNCHANGED <<store, used, assigned>>
    /\ UNCHANGED Fixed

Hetzner_getAllRecords(c) ==
    /\ prov = "hetzner"
    /\ pc[c] = "list"
    /\ \E o \in Outcomes :
          LET get(reply) == Call("GET", "records", "", zoneData[c].ID, <<>>, o, reply)
          IN  IF o = "ok"
              THEN \E body \in ListBodies({ <<>>, <<300>> }) :
                      /\ Issue(c, get(body))
                      /\ Finish(c, "", NoRecord,
                                [i \in 1..Len(body) |->
                                    Hetzner_getAllRecords_rec(body[i], zoneData[c])])
              ELSE /\ Issue(c, get(<<>>))
                   /\ Finish(c, Decoded_err(o), NoRecord, <<>>)
    /\ UNCHANGED <<store, used, zoneData, assigned>>
    /\ UNCHANGED Fixed

Hetzner_createRecord(c) ==
    /\ prov = "hetzner"
    /\ pc[c] = "post"
    /\ LET r == op[c].rec
           reqData == Hetzner_createRecord_reqData(zoneData[c], r, op[c].zone)
           post(o, reply) == Call("POST", "records", "", zoneData[c].ID, <<reqData>>, o, reply)
       IN  \E o \in Possible(RealIds \ store # {}) :
              \/ /\ ~Reached(o)
                 /\ Issue(c, post(o, <<>>))
                 /\ Finish(c, Decoded_err(o), NoRecord, <<>>)
                 /\ UNCHANGED store
              \/ /\ Reached(o)
                 /\ \E uid \in RealIds \ store :
                      /\ store' = store \cup {uid}
                      /\ IF o = "ok"
                         THEN \E ttl \in { <<>>, reqData.TTL } :
                                 LET w == Hetzner_answer(uid, reqData, ttl)
                                 IN  /\ Issue(c, post(o, <<w>>))
                                     /\ Finish(c, "",
                                               Hetzner_createRecord_rec(w, zoneData[c]),
                                               <<>>)
                         ELSE /\ Issue(c, post(o, <<>>))
                              /\ Finish(c, Decoded_err(o), NoRecord, <<>>)
    /\ UNCHANGED <<used, zoneData, assigned>>
    /\ UNCHANGED Fixed

\* the request of a PUT or DELETE whose URL does not parse is nil, the error is
\* overwritten, and doRequest dereferences the nil request
Hetzner_updateRecord(c) ==
    /\ prov = "hetzner"
    /\ pc[c] = "put"
    /\ LET r == op[c].rec
           reqData == Hetzner_updateRecord_reqData(zoneData[c], r, op[c].zone)
       IN  \/ /\ r.ID = "%"
              /\ Panic(c)
              /\ UNCHANGED calls
           \/ /\ r.ID # "%"
              /\ \E o \in Possible(r.ID \in store) :
                    LET put(reply) ==
                            Call("PUT", "records", r.ID, zoneData[c].ID, <<reqData>>, o, reply)
                    IN  IF o = "ok"
                        THEN \E ttl \in { <<>>, reqData.TTL } :
                                LET w == Hetzner_answer(r.ID, reqData, ttl)
                                IN  /\ Issue(c, put(<<w>>))
                                    /\ Finish(c, "",
                                              Hetzner_updateRecord_rec(w, zoneData[c]),
                                              <<>>)
                        ELSE /\ Issue(c, put(<<>>))
                             /\ Finish(c, Decoded_err(o), NoRecord, <<>>)
    /\ UNCHANGED <<store, used, zoneData, assigned>>
    /\ UNCHANGED Fixed

Hetzner_deleteRecord(c) ==
    /\ prov = "hetzner"
    /\ pc[c] = "delete"
    /\ LET id == op[c].rec.ID
       IN  \/ /\ id = "%"
              /\ Panic(c)
              /\ UNCHANGED <<store, calls>>
           \/ /\ id # "%"
              /\ \E o \in Possible(id \in store) :
                    /\ Issue(c, Call("DELETE", "records", id, "", <<>>, o, <<>>))
                    /\ store' = IF Reached(o) THEN store \ {id} ELSE store
                    /\ Finish(c, doRequest_err(o), NoRecord, <<>>)
    /\ UNCHANGED <<used, zoneData, assigned>>
    /\ UNCHANGED Fixed

\* ---- what happens around the client

\* the process running the operation dies, or its caller is gone, between calls
Crash(c) ==
    /\ pc[c] \in Running
    /\ pc' = [pc EXCEPT ![c] = "crashed"]
    /\ UNCHANGED <<prov, store, used, zones, op, zoneData, calls, result, pre, assigned, nm>>

\* the operation is over and nothing of it is kept: the client holds no state
\* between operations, and its caller may start the next one
Forget(c) ==
    /\ pc[c] \in Ended
    /\ pc' = [pc EXCEPT ![c] = "idle"]
    /\ op' = [op EXCEPT ![c] = NoOp]
    /\ zoneData' = [zoneData EXCEPT ![c] = NoZone]
    /\ calls' = [calls EXCEPT ![c] = <<>>]
    /\ result' = [result EXCEPT ![c] = NoResult]
    /\ pre' = [pre EXCEPT ![c] = store]
    /\ assigned' = [assigned EXCEPT ![c] = "none"]
    /\ UNCHANGED <<prov, store, used, zones, nm>>

\* the zones the provider answers a lookup with change; an operation reads
\* them in one step, so a change while it runs is a change before or after it
ZoneChange ==
    /\ prov = "hetzner"
    /\ \A c \in Clients : pc[c] = "idle"
    /\ \E zs \in SeqsUpTo(ZoneChoices, MaxZones) \ {zones} : zones' = zs
    /\ UNCHANGED <<prov, store, used, pc, op, zoneData, calls, result, pre, assigned, nm>>

------------------------------------------------------------------------------
(* Specifications *)

NmOff == [zone |-> <<>>, name |-> <<>>, step |-> "off", out |-> <<>>, again |-> <<>>]

Init ==
    /\ prov \in {"vercel", "hetzner"}
    /\ store \in SUBSET RealIds
    /\ used = IF prov = "vercel" THEN store ELSE {}
    /\ zones \in (IF prov = "hetzner" THEN SeqsUpTo(ZoneChoices, MaxZones) ELSE { <<>> })
    /\ pc = [c \in Clients |-> "idle"]
    /\ op = [c \in Clients |-> NoOp]
    /\ zoneData = [c \in Clients |-> NoZone]
    /\ calls = [c \in Clients |-> <<>>]
    /\ result = [c \in Clients |-> NoResult]
    /\ pre = [c \in Clients |-> store]
    /\ assigned = [c \in Clients |-> "none"]
    /\ nm = NmOff

Step(c) ==
    \/ createOrUpdateRecord(c)
    \/ deleteRecord(c)
    \/ getAllRecords(c)
    \/ Vercel_deleteRecord(c)
    \/ Vercel_createRecord(c)
    \/ Vercel_getAllRecords(c)
    \/ getZoneData(c)
    \/ Hetzner_getAllRecords(c)
    \/ Hetzner_createRecord(c)
    \/ Hetzner_updateRecord(c)
    \/ Hetzner_deleteRecord(c)
    \/ Crash(c)
    \/ Forget(c)

\* one caller at a time
Next == Step("c1") \/ ZoneChange

Spec == Init /\ [][Next]_vars

------------------------------------------------------------------------------
(* Two callers at once.  Their operations interleave call by call, and the  *)
(* provider's zones may change while an operation is between its calls.    *)
(* To keep the interleavings within reach the callers pass fewer records.  *)

\* the zones the provider answers a lookup with change at any moment
ZoneChangeWhileRunning ==
    /\ prov = "hetzner"
    /\ \E c \in Clients : pc[c] \in Running
    /\ \E zs \in SeqsUpTo(ZoneChoices, MaxZones) \ {zones} : zones' = zs
    /\ UNCHANGED <<prov, store, used, pc, op, zoneData, calls, result, pre, assigned, nm>>

\* the arguments the two callers pass, and what the provider holds: one zone
\* or none under the name, one record or none
ConcInputs ==
    /\ Len(zones) <= 1
    /\ store \subseteq {"i1"}
    /\ \A c \in Clients :
          /\ op[c].zone \in { <<>>, <<"z">> }
          /\ op[c].rec.ID \in {"", "i1"}
          /\ op[c].rec.Name \in { <<>>, <<"z">> }
          /\ op[c].rec.TTL = 0

InitConc == Init /\ ConcInputs

StepConc(c) == Step(c) /\ ConcInputs'

ZoneChangeConc == ZoneChangeWhileRunning /\ ConcInputs'

NextConc == StepConc("c1") \/ StepConc("c2") \/ ZoneChangeConc

SpecConc == InitConc /\ [][NextConc]_vars

------------------------------------------------------------------------------
(* The name normalizer on its own, over every name and zone within the bounds *)

InitNorm ==
    /\ prov = "vercel"
    /\ store = {}
    /\ used = {}
    /\ zones = <<>>
    /\ pc = [c \in Clients |-> "idle"]
    /\ op = [c \in Clients |-> NoOp]
    /\ zoneData = [c \in Clients |-> NoZone]
    /\ calls = [c \in Clients |-> <<>>]
    /\ result = [c \in Clients |-> NoResult]
    /\ pre = [c \in Clients |-> {}]
    /\ assigned = [c \in Clients |-> "none"]
    /\ \E recordName \in SeqsUpTo(Chars, MaxNameLen), z \in SeqsUpTo(Chars, MaxZoneLen) :
          nm = [zone |-> z, name |-> recordName, step |-> "in", out |-> <<>>, again |-> <<>>]

Others == <<prov, store, used, zones, pc, op, zoneData, calls, result, pre, assigned>>

\* normalizeRecordName(name, zone)
Normalize ==
    /\ nm.step = "in"
    /\ nm' = [nm EXCEPT !.step = "out", !.out = normalizeRecordName(nm.name, nm.zone)]
    /\ UNCHANGED Others

\* the result is qualified with the zone again and normalized again
Requalify ==
    /\ nm.step = "out"
    /\ nm' = [nm EXCEPT !.step = "again",
                        !.again = normalizeRecordName(nm.out \o <<".">> \o nm.zone, nm.zone)]
    /\ UNCHANGED Others

NextNorm == Normalize \/ Requalify

SpecNorm == InitNorm /\ [][NextNorm]_vars

------------------------------------------------------------------------------
(* Vocabulary of the properties *)

IsUpsert(c) == op[c].path \in {"create", "update"}

\* the function returned or panicked (the process was not killed under it)
Returned(c) == pc[c] \in {"done", "panic"}

Count(c, method) ==
    Cardinality({ i \in 1..Len(calls[c]) : calls[c][i].method = method })

\* the zone lookup of the running Hetzner operation yielded exactly one zone
ZoneResolved(c) ==
    /\ Len(calls[c]) >= 1
    /\ calls[c][1].path = "zones"
    /\ calls[c][1].outcome = "ok"
    /\ Len(zones) = 1

\* the URLs of the Vercel update can be built
VercelUrlsOk(c) == UrlSafe(op[c].zone) /\ op[c].rec.ID # "%"

NameIsZone(c) == unFQDN(op[c].rec.Name) = unFQDN(op[c].zone)

NoEmptyLabel(s) == \A i \in 1..(Len(s) - 1) : ~(s[i] = "." /\ s[i + 1] = ".")

------------------------------------------------------------------------------
(* C1 *)

\* C1, as stated: an upsert with an empty ID that has returned has issued a
\* create call (a POST of a record) and neither a PUT nor a DELETE, on both
\* providers and whatever the provider answered (read for a zone a URL can be
\* built from).
C1_AsClaimed ==
    \A c \in Clients :
        (IsUpsert(c) /\ op[c].rec.ID = "" /\ pc[c] = "done" /\ UrlSafe(op[c].zone))
            => /\ Count(c, "POST") >= 1
               /\ Count(c, "PUT") = 0
               /\ Count(c, "DELETE") = 0

\* C1, amended: an upsert with an empty ID never issues a PUT or a DELETE and
\* never more than one POST; once it has returned it has issued exactly one
\* POST, except when it ended before the create call: on Vercel when the URL
\* cannot be built from the zone, on Hetzner when the zone lookup did not
\* yield exactly one zone.
C1_EmptyIdCreates ==
    \A c \in Clients :
        (IsUpsert(c) /\ op[c].rec.ID = "")
            => /\ Count(c, "PUT") = 0
               /\ Count(c, "DELETE") = 0
               /\ Count(c, "POST") <= 1
               /\ Returned(c) =>
                    ((Count(c, "POST") = 1) <=>
                        IF prov = "vercel" THEN UrlSafe(op[c].zone) ELSE ZoneResolved(c))

\* a Hetzner create that went through: the zone lookup, then the POST
C1_Witness ==
    \E c \in Clients :
        /\ prov = "hetzner" /\ IsUpsert(c) /\ op[c].rec.ID = ""
        /\ pc[c] = "done" /\ result[c].err = ""
        /\ Len(calls[c]) = 2 /\ calls[c][2].method = "POST"

------------------------------------------------------------------------------
(* C2 *)

\* C2, as stated: a Vercel upsert with a non-empty ID issues exactly one
\* DELETE followed by exactly one POST, and the ID of the record returned
\* differs from the input ID whenever the provider assigned a fresh id (read
\* for a zone and an ID a URL can be built from).
C2_AsClaimed ==
    \A c \in Clients :
        (/\ prov = "vercel" /\ IsUpsert(c) /\ op[c].rec.ID # "" /\ pc[c] = "done"
         /\ VercelUrlsOk(c))
            => /\ Len(calls[c]) = 2
               /\ calls[c][1].method = "DELETE"
               /\ calls[c][2].method = "POST"
               /\ assigned[c] = "fresh" => result[c].rec.ID # op[c].rec.ID

\* C2, amended: a Vercel upsert with a non-empty ID issues at most one DELETE,
\* addressed to that ID, and after it at most one POST; once it has returned,
\* the DELETE was issued unless its URL could not be built, the POST was issued
\* exactly when the DELETE returned no error, and a successful upsert issued
\* both and returns an ID that differs from the input ID whenever the provider
\* assigned a fresh id.
C2_DeleteThenCreate ==
    \A c \in Clients :
        (prov = "vercel" /\ IsUpsert(c) /\ op[c].rec.ID # "")
            => /\ Len(calls[c]) <= 2
               /\ Len(calls[c]) >= 1 =>
                    /\ calls[c][1].method = "DELETE"
                    /\ calls[c][1].id = op[c].rec.ID
               /\ Len(calls[c]) = 2 => calls[c][2].method = "POST"
               /\ pc[c] = "done" =>
                    /\ (Len(calls[c]) >= 1) <=> VercelUrlsOk(c)
                    /\ (Len(calls[c]) = 2) <=>
                         (Len(calls[c]) >= 1 /\ doRequest_err(calls[c][1].outcome) = "")
                    /\ result[c].err = "" =>
                         /\ Len(calls[c]) = 2
                         /\ assigned[c] = "fresh" => result[c].rec.ID # op[c].rec.ID

\* a successful update whose new record got a fresh id
C2_Witness ==
    \E c \in Clients :
        /\ prov = "vercel" /\ IsUpsert(c) /\ op[c].rec.ID # ""
        /\ pc[c] = "done" /\ result[c].err = ""
        /\ Len(calls[c]) = 2
        /\ assigned[c] = "fresh"
        /\ result[c].rec.ID # op[c].rec.ID

------------------------------------------------------------------------------
(* C3 *)

\* C3, as stated: when the DELETE of a Vercel update fails, the update returns
\* an error, no POST is issued, and the provider holds exactly the records it
\* held before the update.
C3_AsClaimed ==
    \A c \in Clients :
        (/\ prov = "vercel" /\ op[c].path = "update" /\ pc[c] = "done"
         /\ Len(calls[c]) >= 1 /\ doRequest_err(calls[c][1].outcome) # "")
            => /\ result[c].err # ""
               /\ Count(c, "POST") = 0
               /\ store = pre[c]

\* C3, amended: when the DELETE of a Vercel update fails, the update returns
\* that error with an empty record and the DELETE is the only call issued; the
\* provider holds the records it held before, unless it had carried the delete
\* out before the call failed (the answer was lost), and then the record is
\* gone.  An update whose DELETE cannot even be built issues no call.
C3_FailedDeleteStops ==
    \A c \in Clients :
        (prov = "vercel" /\ op[c].path = "update" /\ pc[c] = "done")
            => /\ (Len(calls[c]) >= 1 /\ doRequest_err(calls[c][1].outcome) # "")
                    => /\ result[c].err = doRequest_err(calls[c][1].outcome)
                       /\ result[c].rec = NoRecord
                       /\ Len(calls[c]) = 1
                       /\ store = IF calls[c][1].outcome = "lost"
                                  THEN pre[c] \ {op[c].rec.ID} ELSE pre[c]
               /\ Len(calls[c]) = 0
                    => /\ result[c].err = "request"
                       /\ store = pre[c]

\* the update of a record the provider no longer holds: the DELETE is refused
C3_Witness ==
    \E c \in Clients :
        /\ prov = "vercel" /\ op[c].path = "update" /\ pc[c] = "done"
        /\ op[c].rec.ID \notin pre[c]
        /\ Len(calls[c]) = 1 /\ calls[c][1].outcome = "status"
        /\ result[c].err = "status"
        /\ store = pre[c]

------------------------------------------------------------------------------
(* C4 *)

C4_DeleteSucceeded(c) ==
    /\ prov = "vercel" /\ op[c].path = "update"
    /\ Len(calls[c]) >= 1
    /\ doRequest_err(calls[c][1].outcome) = ""

\* the operation stopped after the DELETE without a create that took effect
C4_Stopped(c) ==
    \/ pc[c] = "crashed" /\ Len(calls[c]) = 1
    \/ pc[c] = "done" /\ Len(calls[c]) = 2 /\ ~Reached(calls[c][2].outcome)

C4_Calls ==
    \A c \in Clients :
        (prov = "vercel" /\ op[c].path = "update")
            => /\ Len(calls[c]) <= 2
               /\ \A i \in 1..Len(calls[c]) :
                    calls[c][i].method = (IF i = 1 THEN "DELETE" ELSE "POST")
               /\ (C4_DeleteSucceeded(c) /\ C4_Stopped(c))
                    => /\ op[c].rec.ID \notin store
                       /\ store = pre[c] \ {op[c].rec.ID}

C4_NoCallAfterEnd ==
    [][\A c \in Clients : pc[c] \in Ended => Len(calls'[c]) <= Len(calls[c])]_vars

\* C4: a Vercel update is a DELETE and then a POST and never a third call;
\* when the DELETE succeeded and the operation then stopped (killed between the
\* two calls, or its create failed without effect), the provider holds neither
\* the old record nor a replacement, and an operation that has ended issues no
\* further call.
C4_NotAtomic == []C4_Calls /\ C4_NoCallAfterEnd

\* the old record is deleted, the create failed, the update returned an error
C4_Witness ==
    \E c \in Clients :
        /\ C4_DeleteSucceeded(c)
        /\ pc[c] = "done" /\ Len(calls[c]) = 2 /\ ~Reached(calls[c][2].outcome)
        /\ result[c].err # ""
        /\ op[c].rec.ID \in pre[c]
        /\ store = pre[c] \ {op[c].rec.ID}

------------------------------------------------------------------------------
(* C5 *)

\* C5: when the zone lookup of a Hetzner create, list or update is answered
\* with two or more zones, the operation has returned the ambiguous-zone error
\* with no record, and the lookup is the only call it issued.
C5_AmbiguousZone ==
    \A c \in Clients :
        (/\ prov = "hetzner" /\ Len(calls[c]) >= 1
         /\ calls[c][1].path = "zones" /\ calls[c][1].outcome = "ok"
         /\ Len(zones) >= 2)
            => /\ pc[c] = "done"
               /\ result[c] = [err |-> "ambiguous", rec |-> NoRecord, recs |-> <<>>]
               /\ Len(calls[c]) = 1

\* an update whose zone lookup was answered with two zones
C5_Witness ==
    \E c \in Clients :
        /\ prov = "hetzner" /\ op[c].path = "update"
        /\ Len(zones) >= 2
        /\ Len(calls[c]) = 1 /\ calls[c][1].outcome = "ok"
        /\ pc[c] = "done" /\ result[c].err = "ambiguous"

------------------------------------------------------------------------------
(* C6 *)

\* C6, as stated: a Hetzner upsert with a non-empty ID issues exactly one PUT,
\* addressed to that ID, no POST and no DELETE, and the record it returns
\* carries the input ID (read for an ID a URL can be built from).
C6_AsClaimed ==
    \A c \in Clients :
        (/\ prov = "hetzner" /\ IsUpsert(c) /\ op[c].rec.ID \notin {"", "%"}
         /\ pc[c] = "done")
            => /\ Count(c, "PUT") = 1
               /\ \A i \in 1..Len(calls[c]) :
                    calls[c][i].method = "PUT" => calls[c][i].id = op[c].rec.ID
               /\ Count(c, "POST") = 0
               /\ Count(c, "DELETE") = 0
               /\ (pc[c] = "done" /\ result[c].err = "") => result[c].rec.ID = op[c].rec.ID

\* C6, amended: a Hetzner upsert with a non-empty ID issues no POST and no
\* DELETE and at most one PUT, addressed to that ID; once it has returned it
\* has issued the PUT exactly when the zone lookup yielded exactly one zone and
\* the URL could be built from the ID; a successful upsert issued it and
\* returns a record with the input ID.
C6_InPlaceUpdate ==
    \A c \in Clients :
        (prov = "hetzner" /\ IsUpsert(c) /\ op[c].rec.ID # "")
            => /\ Count(c, "POST") = 0
               /\ Count(c, "DELETE") = 0
               /\ Count(c, "PUT") <= 1
               /\ \A i \in 1..Len(calls[c]) :
                    calls[c][i].method = "PUT" => calls[c][i].id = op[c].rec.ID
               /\ Returned(c) =>
                    ((Count(c, "PUT") = 1) <=> (ZoneResolved(c) /\ op[c].rec.ID # "%"))
               /\ (pc[c] = "done" /\ result[c].err = "")
                    => /\ Count(c, "PUT") = 1
                       /\ result[c].rec.ID = op[c].rec.ID

\* a successful in-place update
C6_Witness ==
    \E c \in Clients :
        /\ prov = "hetzner" /\ IsUpsert(c) /\ op[c].rec.ID # ""
        /\ pc[c] = "done" /\ result[c].err = ""
        /\ Len(calls[c]) = 2 /\ calls[c][2].method = "PUT"
        /\ calls[c][2].id = op[c].rec.ID
        /\ result[c].rec.ID = op[c].rec.ID

------------------------------------------------------------------------------
(* C7 *)

\* C7, as stated: the normalized name never ends with a dot and never still
\* ends with the un-FQDN'd zone (read for a name without an empty label and a
\* zone that is not empty: every string ends with the empty one).
C7_AsClaimed ==
    (nm.step \in {"out", "again"} /\ NoEmptyLabel(nm.name) /\ unFQDN(nm.zone) # <<>>)
        => /\ ~HasSuffix(nm.out, <<".">>)
           /\ ~HasSuffix(nm.out, unFQDN(nm.zone))

\* C7, amended: for a name without an empty label (no two dots in a row), the
\* normalized name never ends with a dot, and it ends with the non-empty
\* un-FQDN'd zone only when the name carried the zone suffix twice (as "z.z"
\* does in zone "z", whose zone-relative label is "z").
C7_ZoneRelative ==
    (nm.step \in {"out", "again"} /\ NoEmptyLabel(nm.name))
        => LET n == unFQDN(nm.name)
               z == unFQDN(nm.zone)
           IN  /\ ~HasSuffix(nm.out, <<".">>)
               /\ (z # <<>> /\ HasSuffix(nm.out, z))
                    => \/ HasSuffix(n, z \o z)
                       \/ HasSuffix(n, z \o <<".">> \o z)

\* a fully qualified name in its zone: the suffix and both dots are gone
C7_Witness ==
    /\ nm.step = "out"
    /\ nm.name = <<"w", ".", "z", ".">>
    /\ nm.zone = <<"z">>
    /\ nm.out = <<"w">>

------------------------------------------------------------------------------
(* C8 *)

\* C8, as stated: for all name and zone,
\* normalize(normalize(name, zone) + "." + zone, zone) = normalize(name, zone).
C8_AsClaimed == nm.step = "again" => nm.again = nm.out

\* C8, amended: the same, for all name and every zone that is not the empty
\* string.
C8_Requalified == (nm.step = "again" /\ nm.zone # <<>>) => nm.again = nm.out

\* a name that normalization changed, requalified and normalized again
C8_Witness ==
    /\ nm.step = "again"
    /\ nm.zone # <<>>
    /\ nm.out # nm.name
    /\ nm.out # <<>>
    /\ nm.again = nm.out

------------------------------------------------------------------------------
(* C9 *)

\* C9: when the record name equals the zone, with or without a trailing dot on
\* either, normalizeRecordName gives the empty string, every create or update
\* request of the upsert carries the empty name, an upsert that succeeded did
\* send it, and an upsert that failed failed on a call or on building a
\* request, not on the name.
C9_RootRecord ==
    \A c \in Clients :
        (IsUpsert(c) /\ NameIsZone(c))
            => /\ normalizeRecordName(op[c].rec.Name, op[c].zone) = <<>>
               /\ \A i \in 1..Len(calls[c]) :
                    calls[c][i].body # <<>> => calls[c][i].body[1].Name = <<>>
               /\ (pc[c] = "done" /\ result[c].err = "")
                    => /\ calls[c][Len(calls[c])].body # <<>>
                       /\ result[c].rec.Name = <<>>
               /\ (pc[c] = "done" /\ result[c].err # "")
                    => \/ result[c].err \in {"request", "ambiguous"}
                       \/ calls[c][Len(calls[c])].outcome # "ok"

\* a create of the root record that went through, the zone given with its dot
C9_Witness ==
    \E c \in Clients :
        /\ IsUpsert(c)
        /\ op[c].rec.Name = <<"z">> /\ op[c].zone = <<"z", ".">>
        /\ pc[c] = "done" /\ result[c].err = ""
        /\ calls[c][Len(calls[c])].method = "POST"
        /\ calls[c][Len(calls[c])].body[1].Name = <<>>

------------------------------------------------------------------------------
(* C10 *)

\* C10: every create request of the Vercel client carries a TTL of at least
\* 60, and for an input TTL of t whole seconds it carries max(t, 60).
C10_TTLFloor ==
    \A c \in Clients :
        prov = "vercel" =>
            \A i \in 1..Len(calls[c]) :
                calls[c][i].method = "POST" =>
                    LET sent == calls[c][i].body[1].TTL
                        t == op[c].rec.TTL
                    IN  /\ sent >= MinTTL
                        /\ t % Second = 0 => sent = Max(t \div Second, MinTTL)

\* t = 10 was sent as 60
C10_Witness ==
    \E c \in Clients :
        /\ prov = "vercel"
        /\ op[c].rec.TTL = 10 * Second
        /\ Len(calls[c]) >= 1
        /\ calls[c][Len(calls[c])].method = "POST"
        /\ calls[c][Len(calls[c])].body[1].TTL = 60

------------------------------------------------------------------------------
(* C11 *)

\* a Hetzner create, list or update that returned without error: its first
\* call is the zone lookup, its second the record call
HetznerDone(c, path) ==
    /\ prov = "hetzner" /\ op[c].path = path
    /\ pc[c] = "done" /\ result[c].err = ""

\* the one zone the lookup of this operation was answered with
ZoneLookedUp(c) == calls[c][1].reply[1]

\* the TTL the claim gives a record the provider returned as w
InboundTTL(c, w) ==
    IF w.TTL = <<>> THEN ZoneLookedUp(c).TTL * Second ELSE w.TTL[1] * Second

\* C11: in a Hetzner list, create and update alike, each record returned has
\* the default TTL of the zone this operation looked up when the provider's
\* record came without a ttl, and the provider's ttl when it came with one.
C11_InboundTTL ==
    \A c \in Clients :
        /\ HetznerDone(c, "list") =>
              LET body == calls[c][2].reply
              IN  /\ Len(result[c].recs) = Len(body)
                  /\ \A i \in 1..Len(body) :
                        result[c].recs[i].TTL = InboundTTL(c, body[i])
        /\ (HetznerDone(c, "create") \/ HetznerDone(c, "update")) =>
              result[c].rec.TTL = InboundTTL(c, calls[c][2].reply[1])

\* a listing of two records, one without a ttl and one with a ttl that is
\* not the zone's default: the first has the zone's default, the second its own
C11_Witness ==
    \E c \in Clients :
        /\ HetznerDone(c, "list")
        /\ Len(calls[c][2].reply) = 2
        /\ \E i, j \in 1..2 :
              /\ calls[c][2].reply[i].TTL = <<>>
              /\ result[c].recs[i].TTL = ZoneLookedUp(c).TTL * Second
              /\ calls[c][2].reply[j].TTL = <<300>>
              /\ result[c].recs[j].TTL = 300 * Second
              /\ ZoneLookedUp(c).TTL # 300

------------------------------------------------------------------------------
(* C12 *)

\* C12: every create and update request of the Hetzner client carries a ttl,
\* and it is the caller's TTL in whole seconds (the fraction of a second
\* dropped), zero when the caller's TTL is zero; it is not the default TTL of
\* the zone looked up unless the caller asked for just that.
C12_OutboundTTL ==
    \A c \in Clients :
        prov = "hetzner" =>
            \A i \in 1..Len(calls[c]) :
                calls[c][i].method \in {"POST", "PUT"} =>
                    LET ttl == calls[c][i].body[1].TTL
                        t == op[c].rec.TTL
                    IN  /\ Len(ttl) = 1
                        /\ t % Second = 0 => ttl[1] * Second = t
                        /\ t >= 0 => (ttl[1] * Second <= t /\ t < (ttl[1] + 1) * Second)
                        /\ t <= 0 => (ttl[1] * Second >= t /\ t > (ttl[1] - 1) * Second)
                        /\ ttl[1] = ZoneLookedUp(c).TTL => t \div Second = ZoneLookedUp(c).TTL

\* an update with the zero TTL: the request says ttl 0, not the zone's default
C12_Witness ==
    \E c \in Clients :
        /\ prov = "hetzner" /\ op[c].path = "update"
        /\ op[c].rec.TTL = 0
        /\ Len(calls[c]) = 2 /\ calls[c][2].method = "PUT"
        /\ calls[c][2].body[1].TTL = <<0>>
        /\ ZoneLookedUp(c).TTL > 0

------------------------------------------------------------------------------
(* C13 *)

\* the error a call failed with, "" when it did not fail: a transport error, a
\* status outside [200,300), or a body that does not decode where the client
\* decodes it (the body of the answer to a DELETE is not read for its content)
FailedWith(call) ==
    CASE call.outcome \in {"neterr", "lost"} -> "transport"
      [] call.outcome = "status" -> "status"
      [] call.outcome = "undecodable" /\ call.method # "DELETE" -> "decode"
      [] OTHER -> ""

\* C13: no operation of either client issues the same call twice, and once a
\* call has failed it is the operation's last call and the operation has
\* returned that error with the empty record and no list.
C13_NoRetry ==
    \A c \in Clients :
        /\ \A i, j \in 1..Len(calls[c]) :
              (calls[c][i].method = calls[c][j].method /\ calls[c][i].path = calls[c][j].path)
                  => i = j
        /\ \A i \in 1..Len(calls[c]) :
              FailedWith(calls[c][i]) # ""
                  => /\ i = Len(calls[c])
                     /\ pc[c] = "done"
                     /\ result[c] = [err |-> FailedWith(calls[c][i]),
                                     rec |-> NoRecord, recs |-> <<>>]

\* a Hetzner create whose POST was answered with a body that does not decode:
\* two calls, the decoding error and the empty record
C13_Witness ==
    \E c \in Clients :
        /\ prov = "hetzner" /\ op[c].path = "create"
        /\ Len(calls[c]) = 2
        /\ calls[c][1].outcome = "ok"
        /\ calls[c][2].method = "POST" /\ calls[c][2].outcome = "undecodable"
        /\ pc[c] = "done"
        /\ result[c].err = "decode" /\ result[c].rec = NoRecord

------------------------------------------------------------------------------
(* C14 *)

\* the request the operation of c makes as its i-th call, from its own
\* arguments and the answers to its own earlier calls
OwnRequest(c, i) ==
    LET r == op[c].rec
        zone == op[c].zone
        path == op[c].path
        req(z, method, p, id, body) ==
            [zone |-> z, method |-> method, path |-> p, id |-> id, body |-> body]
        zd == calls[c][1].reply[1]
    IN  CASE path = "delete" ->
               req(IF prov = "vercel" THEN zone ELSE "", "DELETE", "records", r.ID, <<>>)
          [] prov = "vercel" /\ path = "list" -> req(zone, "GET", "records", "", <<>>)
          [] prov = "vercel" /\ path = "update" /\ i = 1 ->
               req(zone, "DELETE", "records", r.ID, <<>>)
          [] prov = "vercel" ->
               req(zone, "POST", "records", "", << Vercel_reqData(r, zone) >>)
          [] i = 1 -> req(zone, "GET", "zones", "", <<>>)
          [] path = "list" -> req(zd.ID, "GET", "records", "", <<>>)
          [] path = "create" ->
               req(zd.ID, "POST", "records", "", << Hetzner_createRecord_reqData(zd, r, zone) >>)
          [] OTHER ->
               req(zd.ID, "PUT", "records", r.ID, << Hetzner_updateRecord_reqData(zd, r, zone) >>)

\* what the operation of c returns, from its own arguments and the answers
\* to its own calls
OwnResult(c) ==
    LET r == op[c].rec
        zone == op[c].zone
        path == op[c].path
        n == Len(calls[c])
        last == calls[c][n]
        ret(err, rec, recs) == [err |-> err, rec |-> rec, recs |-> recs]
    IN  CASE n = 0 -> ret("request", NoRecord, <<>>)
          [] FailedWith(last) # "" -> ret(FailedWith(last), NoRecord, <<>>)
          [] last.path = "zones" -> ret("ambiguous", NoRecord, <<>>)
          [] path = "delete" -> ret("", NoRecord, <<>>)
          [] prov = "vercel" /\ path = "list" ->
               ret("", NoRecord, [k \in 1..Len(last.reply) |-> Vercel_listed(last.reply[k])])
          [] prov = "vercel" ->
               ret("", Vercel_created(r, zone, last.reply[1].ID), <<>>)
          [] path = "list" ->
               ret("", NoRecord,
                   [k \in 1..Len(last.reply) |->
                       Hetzner_getAllRecords_rec(last.reply[k], calls[c][1].reply[1])])
          [] path = "create" ->
               ret("", Hetzner_createRecord_rec(last.reply[1], calls[c][1].reply[1]), <<>>)
          [] OTHER ->
               ret("", Hetzner_updateRecord_rec(last.reply[1], calls[c][1].reply[1]), <<>>)

C14_OwnInputsOnly ==
    \A c \in Clients :
        /\ \A i \in 1..Len(calls[c]) :
              LET call == calls[c][i]
              IN  [zone |-> call.zone, method |-> call.method, path |-> call.path,
                   id |-> call.id, body |-> call.body] = OwnRequest(c, i)
        /\ pc[c] = "done" => result[c] = OwnResult(c)

\* what a caller holds of its operation
OwnState(c) == <<pc[c], op[c], zoneData[c], calls[c], result[c]>>

C14_OneCallerPerStep ==
    \A c, d \in Clients :
        (c # d /\ OwnState(c)' # OwnState(c)) => OwnState(d)' = OwnState(d)

\* C14: with two callers whose operations interleave call by call, every
\* request of an operation and the result it returns are determined by its own
\* arguments and the answers to its own calls, and no step of one caller
\* changes anything the other caller holds.
C14_NoSharedState == []C14_OwnInputsOnly /\ [][C14_OneCallerPerStep]_vars

\* two Hetzner operations between their calls at once, each holding the zone
\* its own lookup was answered with: the zone changed between the lookups
C14_Witness ==
    /\ prov = "hetzner"
    /\ pc["c1"] \in {"post", "put", "list"}
    /\ pc["c2"] \in {"post", "put", "list"}
    /\ Len(calls["c1"]) = 1 /\ Len(calls["c2"]) = 1
    /\ zoneData["c1"] = calls["c1"][1].reply[1]
    /\ zoneData["c2"] = calls["c2"][1].reply[1]
    /\ zoneData["c1"] # zoneData["c2"]

------------------------------------------------------------------------------
(* C15 *)

\* C15: a standalone delete that has ended has returned, after exactly one
\* call: a DELETE addressed by the record's ID, on Hetzner with no zone lookup
\* before it; it returned an error exactly when that call failed (transport
\* error or status outside [200,300)).  A delete whose request could not be
\* built is read as a call that failed: then an error must have been returned.
C15_StandaloneDelete ==
    \A c \in Clients :
        (op[c].path = "delete" /\ Returned(c))
            => /\ pc[c] = "done"
               /\ Len(calls[c]) <= 1
               /\ \A i \in 1..Len(calls[c]) :
                    /\ calls[c][i].method = "DELETE"
                    /\ calls[c][i].path = "records"
                    /\ calls[c][i].id = op[c].rec.ID
               /\ Len(calls[c]) = 1 =>
                    ((result[c].err # "") <=>
                        calls[c][1].outcome \in {"status", "neterr", "lost"})
               /\ Len(calls[c]) = 0 => result[c].err # ""

------------------------------------------------------------------------------
(* C16 *)

\* a Hetzner create, list or update
NeedsZone(c) == prov = "hetzner" /\ op[c].path \in {"create", "list", "update"}

\* each create, list and update begins with a zone lookup of its own, by the
\* zone name it was given, issues no second one, and its record call is
\* addressed with the zone ID of that lookup's answer; a record that came
\* without a ttl has that answer's default TTL
C16_OwnLookup ==
    \A c \in Clients :
        NeedsZone(c) =>
            /\ \A i \in 1..Len(calls[c]) :
                  IF i = 1
                  THEN /\ calls[c][i].path = "zones"
                       /\ calls[c][i].zone = op[c].zone
                  ELSE /\ calls[c][i].path = "records"
                       /\ calls[c][1].outcome = "ok"
                       /\ Len(calls[c][1].reply) = 1
                       /\ calls[c][i].zone = calls[c][1].reply[1].ID
                       /\ calls[c][i].body # <<>> =>
                             calls[c][i].body[1].ZoneID = calls[c][1].reply[1].ID
            /\ (pc[c] = "done" /\ result[c].err = "") =>
                  /\ Len(calls[c]) = 2
                  /\ \A k \in 1..Len(calls[c][2].reply) :
                        calls[c][2].reply[k].TTL = <<>> =>
                            LET got == IF op[c].path = "list"
                                       THEN result[c].recs[k] ELSE result[c].rec
                            IN  got.TTL = calls[c][1].reply[1].TTL * Second

\* a zone lookup is answered with the zones the provider holds at that moment
C16_LookupIsFresh ==
    \A c \in Clients :
        (/\ NeedsZone(c)'
         /\ Len(calls[c]') = Len(calls[c]) + 1
         /\ calls[c]'[Len(calls[c]')].path = "zones"
         /\ calls[c]'[Len(calls[c]')].outcome = "ok")
            => calls[c]'[Len(calls[c]')].reply = zones

\* C16: the Hetzner client never caches the zone: every create, list and
\* update makes one zone lookup of its own before its record call, the lookup
\* is answered with the provider's zones of that moment, and the record call
\* and the default TTL use that answer; so an operation whose lookup follows a
\* change of the zone works with the changed zone.
C16_NoZoneCache == []C16_OwnLookup /\ [][C16_LookupIsFresh]_vars

\* one create went through in zone z1; the zone under the name is z2 now, and
\* another create, whose lookup came after the change, went through in z2 and
\* returned z2's default TTL for a record that came without a ttl
C16_Witness ==
    /\ prov = "hetzner"
    /\ op["c1"].path = "create" /\ op["c2"].path = "create"
    /\ pc["c1"] = "done" /\ result["c1"].err = ""
    /\ pc["c2"] = "done" /\ result["c2"].err = ""
    /\ calls["c1"][1].reply[1].ID = "z1" /\ calls["c1"][2].zone = "z1"
    /\ zones = << [ID |-> "z2", TTL |-> 86400] >>
    /\ calls["c2"][1].reply = zones
    /\ calls["c2"][2].zone = "z2"
    /\ calls["c2"][2].body[1].ZoneID = "z2"
    /\ calls["c2"][2].reply[1].TTL = <<>>
    /\ result["c2"].rec.TTL = 86400 * Second

------------------------------------------------------------------------------
(* C17 *)

\* C17: when the zone lookup of a Hetzner create, list or update succeeds and
\* is answered with no zone, the operation ends in a run-time fault (the index
\* of result.Zones[0] is out of range): it returns nothing, neither a record
\* nor an error, and the lookup is the only call it issued.
C17_ZeroZones ==
    \A c \in Clients :
        (/\ NeedsZone(c) /\ Len(calls[c]) >= 1
         /\ calls[c][1].outcome = "ok" /\ calls[c][1].reply = <<>>)
            => /\ pc[c] = "panic"
               /\ result[c] = NoResult
               /\ Len(calls[c]) = 1

\* a list in a zone the provider does not know
C17_Witness ==
    \E c \in Clients :
        /\ prov = "hetzner" /\ op[c].path = "list"
        /\ zones = <<>>
        /\ Len(calls[c]) = 1 /\ calls[c][1].path = "zones" /\ calls[c][1].outcome = "ok"
        /\ pc[c] = "panic"

------------------------------------------------------------------------------
(* C18 *)

ListDone(c) == op[c].path = "list" /\ pc[c] = "done" /\ result[c].err = ""

\* C18: a list that succeeded issued one GET of the records, as its last
\* call, after exactly one zone lookup on Hetzner and as its only call on
\* Vercel; it returns as many records as the answer has entries, in the
\* answer's order, each with the id, type, name and value of its entry.
C18_ListAll ==
    \A c \in Clients :
        ListDone(c) =>
            LET n == Len(calls[c])
                body == calls[c][n].reply
                recs == result[c].recs
            IN  /\ n = (IF prov = "hetzner" THEN 2 ELSE 1)
                /\ calls[c][n].method = "GET" /\ calls[c][n].path = "records"
                /\ prov = "hetzner" =>
                      (calls[c][1].method = "GET" /\ calls[c][1].path = "zones")
                /\ Len(recs) = Len(body)
                /\ \A i \in 1..Len(body) :
                      /\ recs[i].ID = body[i].ID
                      /\ recs[i].Type = body[i].Type
                      /\ recs[i].Name = body[i].Name
                      /\ recs[i].Value = body[i].Value

\* a Vercel list of two records, answered and returned in the order i2, i1
C18_Witness ==
    \E c \in Clients :
        /\ prov = "vercel" /\ ListDone(c)
        /\ Len(calls[c]) = 1
        /\ Len(calls[c][1].reply) = 2
        /\ calls[c][1].reply[1].ID = "i2" /\ calls[c][1].reply[2].ID = "i1"
        /\ result[c].recs[1].ID = "i2" /\ result[c].recs[2].ID = "i1"
        /\ result[c].recs[1].Name = <<"w">>

------------------------------------------------------------------------------
(* C19 *)

\* C19: the record a successful Vercel create or update returns has the uid
\* of the provider's answer as ID, the caller's type and value, the name that
\* was sent (the normalized one) and the zero TTL, which is never the TTL that
\* was sent.
C19_ReturnedRecord ==
    \A c \in Clients :
        (prov = "vercel" /\ IsUpsert(c) /\ pc[c] = "done" /\ result[c].err = "")
            => LET post == calls[c][Len(calls[c])]
                   rec == result[c].rec
               IN  /\ post.method = "POST"
                   /\ rec.ID = post.reply[1].ID
                   /\ rec.Type = op[c].rec.Type
                   /\ rec.Value = op[c].rec.Value
                   /\ rec.Name = normalizeRecordName(op[c].rec.Name, op[c].zone)
                   /\ rec.Name = post.body[1].Name
                   /\ rec.TTL = 0
                   /\ rec.TTL # post.body[1].TTL * Second

\* an update with a TTL of 300 seconds: 300 was sent, the record returned
\* has the new uid, the label "w" and the zero TTL
C19_Witness ==
    \E c \in Clients :
        /\ prov = "vercel" /\ op[c].path = "update"
        /\ pc[c] = "done" /\ result[c].err = ""
        /\ op[c].rec.TTL = 300 * Second
        /\ op[c].rec.Name = <<"w", ".", "z", ".">> /\ op[c].zone = <<"z">>
        /\ calls[c][2].body[1].TTL = 300
        /\ result[c].rec.ID = calls[c][2].reply[1].ID
        /\ result[c].rec.Name = <<"w">>
        /\ result[c].rec.TTL = 0

====
